---- MODULE Spec2Model ----
(***************************************************************************)
(* Anamorphic ElGamal e-voting (package ElGamal and the demo driver).      *)
(*                                                                         *)
(* The module holds one state machine per part of the program:             *)
(*   SpecElGamal   KGen / Enc / Dec                      (elgamal.go)      *)
(*   SpecAnam      AGen / AEnc / ADec                    (elgamal.go)      *)
(*   SpecVote      EncodeVote / DecodeCounts / DetermineWinner (voting.go) *)
(*   SpecSplit     SplitSecret                           (voting.go)       *)
(*   SpecTally     TallyVotes over arbitrary ciphertexts (voting.go)       *)
(*   SpecElection  DistributeShares, voting and tally    (main.go)         *)
(* big.Int values are unbounded integers; a nil *big.Int is Nil.           *)
(***************************************************************************)
EXTENDS Integers, Sequences, FiniteSets, TLC

VARIABLES
    pc,       \* position of the running scenario
    pp,       \* Params{P, Q, G}
    sk,       \* secret key returned by KGen
    pk,       \* public key returned by KGen
    msg,      \* message handed to Enc / cover message handed to AEnc
    ct,       \* ciphertext pair as the caller holds it: <<first, second>>
    origin,   \* "enc" when ct came from Enc, "foreign" when it was received
    dec,      \* value returned by Dec
    app,      \* AParams{L, S, T}
    K,        \* symmetric key of AGen, as the block cipher it selects
    Tmap,     \* reverse table of AGen: residue g^i mod p -> i
    cm,       \* hidden message handed to AEnc
    x, y,     \* AEnc's current sample
    r,        \* AEnc's current candidate randomness
    adec,     \* value returned by ADec
    base,           \* base of the vote encoding
    numCandidates,  \* number of candidates
    ballots,        \* candidates whose EncodeVote values were summed
    total,          \* sum of encoded votes / total returned by TallyVotes
    counts,         \* value returned by DecodeCounts
    winner,         \* value returned by DetermineWinner
    secret,         \* SplitSecret's r
    n,              \* SplitSecret's n
    parts,          \* value returned by SplitSecret
    votes,          \* VC.Votes: the ciphertexts handed to TallyVotes
    users,          \* the users, in userList order: [r, Shares] each
    low, high,      \* DistributeShares' range of r_i
    sent,           \* number of senders DistributeShares has gone through
    voted,          \* users whose vote is in VC.Votes
    cands,          \* candidate behind each vote of VC.Votes
    blinded         \* bi behind each vote of VC.Votes

elgVars == <<pc, pp, sk, pk, msg, ct, origin, dec>>
anamVars == <<app, K, Tmap, cm, x, y, r, adec>>
voteVars == <<base, numCandidates, ballots, total, counts, winner>>
splitVars == <<secret, n, parts>>
tallyVars == <<votes>>
elecVars == <<users, low, high, sent, voted, cands, blinded>>
restVars == <<voteVars, splitVars, tallyVars, elecVars>>
vars == <<elgVars, anamVars, restVars>>

-----------------------------------------------------------------------------
(* Bounds of the model *)

\* largest group modulus P tried
MaxP == 5

\* largest hidden-message domain size L tried
MaxL == 3

\* largest number S * T of cipher input blocks tried
MaxCells == 2

\* largest cipher output block tried (a block is reduced mod P by F)
MaxBlock == 1

\* largest encoding base tried
MaxBase == 3

\* largest number of candidates tried
MaxCandidates == 3

\* largest number of ballots summed
MaxBallots == 3

\* largest total handed to DecodeCounts and DetermineWinner directly
MaxTotal == 12

\* largest secret handed to SplitSecret
MaxSecret == 6

\* largest number of shares asked of SplitSecret
MaxShares == 3

\* largest number of ciphertexts handed to TallyVotes
MaxVotes == 2

\* largest number of users tried
MaxUsers == 2

\* largest high of DistributeShares tried (r_i < high)
MaxHigh == 2

-----------------------------------------------------------------------------
\* a nil *big.Int (every value the program holds where Nil is used is >= 0)
Nil == -1

-----------------------------------------------------------------------------
(* Group arithmetic: elgamal.go 19-32 *)

modMul(a, b, m) == (a * b) % m

RECURSIVE modExp(_, _, _)
modExp(a, e, m) == IF e <= 0 THEN 1 % m ELSE (a * modExp(a, e - 1, m)) % m

\* big.Int.ModInverse: the inverse in [0, p), or nil when a and p are not coprime
modInverse(a, p) ==
    IF \E z \in 0..(p - 1) : (a * z) % p = 1
    THEN CHOOSE z \in 0..(p - 1) : (a * z) % p = 1
    ELSE Nil

IsPrime(m) == m >= 2 /\ \A k \in 2..(m - 1) : m % k # 0

\* main.go 72-81: P prime, Q = P - 1, G a group element; here over small primes
GroupParams ==
    { [P |-> p, Q |-> p - 1, G |-> g] :
        <<p, g>> \in { <<a, b>> \in (3..MaxP) \X (2..MaxP) : IsPrime(a) /\ b < a } }

-----------------------------------------------------------------------------
(* ElGamal: elgamal.go 34-88 *)

\* KGen with the value drawn by rand.Int(Q): <<sk, pk>>
KGen(params, draw) ==
    LET s == IF draw = 0 THEN 1 ELSE draw
    IN  <<s, modExp(params.G, s, params.P)>>

\* Enc with the value drawn by rand.Int(q): the tuple of return values, in the
\* order of the return statement (line 70)
Enc(p, q, g, pubk, m, draw) ==
    LET rnd == IF draw = 0 THEN 1 ELSE draw
        pkR == modExp(pubk, rnd, p)
        c0  == (m * pkR) % p
        c1  == modExp(g, rnd, p)
    IN  <<c1, c0, rnd>>

\* Dec: ModInverse leaves its receiver unchanged when there is no inverse, and
\* its nil result is dropped (line 82)
Dec(params, s, c0, c1) ==
    LET e   == modExp(c1, s, params.P)
        i   == modInverse(e, params.P)
        inv == IF i = Nil THEN e ELSE i
    IN  (c0 * inv) % params.P

\* the variables of the anamorphic layer before anything ran
AnamIdle ==
    /\ app = [L |-> 1, S |-> 1, T |-> 1]
    /\ K = <<>> /\ Tmap = <<>>
    /\ cm = Nil /\ x = Nil /\ y = Nil /\ r = Nil /\ adec = Nil

\* no user, no share, no vote
ElecIdle ==
    /\ users = <<>> /\ low = 0 /\ high = 1 /\ sent = 0
    /\ voted = {} /\ cands = <<>> /\ blinded = <<>>

\* the variables of the voting layer before anything ran
RestIdle ==
    /\ base = 1 /\ numCandidates = 1 /\ ballots = <<>> /\ total = 0
    /\ counts = <<>> /\ winner = Nil
    /\ secret = 0 /\ n = 1 /\ parts = <<>>
    /\ votes = <<>>
    /\ ElecIdle

ElgInit ==
    /\ pc = "kgen"
    /\ pp \in GroupParams
    /\ AnamIdle
    /\ RestIdle
    /\ sk = Nil /\ pk = Nil /\ msg = Nil
    /\ ct = <<Nil, Nil>>
    /\ origin = "none"
    /\ dec = Nil

ElgKGen ==
    /\ pc = "kgen"
    /\ \E draw \in 0..(pp.Q - 1) :
          /\ sk' = KGen(pp, draw)[1]
          /\ pk' = KGen(pp, draw)[2]
    /\ pc' = "enc"
    /\ UNCHANGED <<pp, msg, ct, origin, dec, anamVars, restVars>>

\* a caller encrypts m and keeps the first two return values as its ciphertext
ElgEnc ==
    /\ pc = "enc"
    /\ \E m \in 0..(pp.P - 1), draw \in 0..(pp.Q - 1) :
          LET res == Enc(pp.P, pp.Q, pp.G, pk, m, draw)
          IN  /\ msg' = m
              /\ ct' = <<res[1], res[2]>>
    /\ origin' = "enc"
    /\ pc' = "dec"
    /\ UNCHANGED <<pp, sk, pk, dec, anamVars, restVars>>

\* a ciphertext that did not come from Enc reaches the key holder
ElgReceive ==
    /\ pc = "enc"
    /\ \E a \in 0..(pp.P - 1), b \in 0..(pp.P - 1) : ct' = <<a, b>>
    /\ origin' = "foreign"
    /\ pc' = "dec"
    /\ UNCHANGED <<pp, sk, pk, msg, dec, anamVars, restVars>>

ElgDec ==
    /\ pc = "dec"
    /\ dec' = Dec(pp, sk, ct[1], ct[2])
    /\ pc' = "done"
    /\ UNCHANGED <<pp, sk, pk, msg, ct, origin, anamVars, restVars>>

ElgNext == ElgKGen \/ ElgEnc \/ ElgReceive \/ ElgDec

SpecElGamal == ElgInit /\ [][ElgNext]_vars

\* C2: Dec of the pair Enc returned (first, second return value) gives back m.
C2_RoundTrip ==
    (pc = "done" /\ origin = "enc") => dec = msg

\* C8: when c1^sk has no inverse mod p, Dec does not return an ordinary
\* message value but a distinct error outcome.
C8_DecSurfacesNoInverse ==
    (pc = "done" /\ modInverse(modExp(ct[2], sk, pp.P), pp.P) = Nil)
        => dec \notin 0..(pp.P - 1)

-----------------------------------------------------------------------------
(* Anamorphic layer: elgamal.go 102-212 *)

\* AParams tried: every L, S, T within the bounds
AParamsSet ==
    { [L |-> l, S |-> s, T |-> t] :
        <<l, s, t>> \in { <<a, b, c>> \in (1..MaxL) \X (1..MaxCells) \X (1..MaxCells) :
                             b * c <= MaxCells } }

\* A key K fixes the cipher: the 16-byte block it gives for each input block
\* (x, y).  The cipher is not computed here; every assignment of blocks within
\* the bound stands for some key.
KeySpace(ap) == [ (0..(ap.S - 1)) \X (0..(ap.T - 1)) -> 0..MaxBlock ]

\* F: the cipher block of (x, y) under K, reduced mod P
F(params, key, xi, yi) == key[<<xi, yi>>] % params.P

\* d(t, x) = x mod t
d(t, xi) == xi % t

\* AGen's table loop: T[g^i mod p] = i for i = 0..l-1, later i overwriting
RECURSIVE AGenLoop(_, _, _, _)
AGenLoop(T, i, l, params) ==
    IF i < l
    THEN LET val == modExp(params.G, i, params.P)
         IN  AGenLoop([v \in (DOMAIN T) \cup {val} |-> IF v = val THEN i ELSE T[v]],
                      i + 1, l, params)
    ELSE T

AGen(l, params, key) == AGenLoop(<<>>, 0, l, params)

\* One pass of AEnc's loop with the sample (xi, yi) drawn
AEncTry(ap, params, key, pubk, m, hidden, xi, yi) ==
    LET tVal   == F(params, key, xi, yi)
        rnd    == (hidden + tVal) % params.Q
        yCheck == modExp(params.G, rnd, params.P) % ap.T
    IN  [accept |-> (yCheck = yi),
         c0     |-> modMul(m, modExp(pubk, rnd, params.P), params.P),
         c1     |-> modExp(params.G, rnd, params.P),
         r      |-> rnd]

\* ADec's search loop from xi on
RECURSIVE ADecLoop(_, _, _, _, _, _, _)
ADecLoop(ap, params, key, T, c1, yi, xi) ==
    IF xi < ap.S
    THEN LET tVal == F(params, key, xi, yi)
             invG == modInverse(modExp(params.G, tVal, params.P), params.P)
             sVal == modMul(c1, invG, params.P)
         IN  IF invG = Nil
             THEN ADecLoop(ap, params, key, T, c1, yi, xi + 1)
             ELSE IF sVal \in DOMAIN T
                  THEN T[sVal]
                  ELSE ADecLoop(ap, params, key, T, c1, yi, xi + 1)
    ELSE Nil

ADec(ap, params, key, T, c0, c1) ==
    ADecLoop(ap, params, key, T, c1, c1 % ap.T, 0)

ElgIdle ==
    /\ sk = Nil /\ pk = Nil /\ msg = Nil
    /\ ct = <<Nil, Nil>> /\ origin = "none" /\ dec = Nil

AnamInit ==
    /\ pc = "setup"
    /\ pp \in GroupParams
    /\ app \in AParamsSet
    /\ ElgIdle
    /\ RestIdle
    /\ K = <<>> /\ Tmap = <<>>
    /\ cm = Nil /\ x = Nil /\ y = Nil /\ r = Nil /\ adec = Nil

\* main.go 84-90: the collector's KGen and AGen
AnamSetup ==
    /\ pc = "setup"
    /\ \E draw \in 0..(pp.Q - 1) :
          /\ sk' = KGen(pp, draw)[1]
          /\ pk' = KGen(pp, draw)[2]
    /\ K' \in KeySpace(app)
    /\ Tmap' = AGen(app.L, pp, K')
    /\ pc' = "call"
    /\ UNCHANGED <<pp, msg, ct, origin, dec, app, cm, x, y, r, adec, restVars>>

\* AEnc is called with a cover message and a hidden message in [0, L)
AEncCall ==
    /\ pc = "call"
    /\ msg' \in 0..(pp.P - 1)
    /\ cm' \in 0..(app.L - 1)
    /\ pc' = "sample"
    /\ UNCHANGED <<pp, sk, pk, ct, origin, dec, app, K, Tmap, x, y, r, adec, restVars>>

\* one pass of the loop for the sample (xi, yi): rejected, the loop goes on
AEncReject(xi, yi) ==
    /\ pc = "sample"
    /\ xi < app.S /\ yi < app.T
    /\ LET t == AEncTry(app, pp, K, pk, msg, cm, xi, yi)
       IN  /\ ~t.accept
           /\ x' = xi /\ y' = yi /\ r' = t.r
    /\ UNCHANGED <<pc, pp, sk, pk, msg, ct, origin, dec, app, K, Tmap, cm, adec, restVars>>

\* one pass of the loop for the sample (xi, yi): accepted, AEnc returns
AEncAccept(xi, yi) ==
    /\ pc = "sample"
    /\ xi < app.S /\ yi < app.T
    /\ LET t == AEncTry(app, pp, K, pk, msg, cm, xi, yi)
       IN  /\ t.accept
           /\ x' = xi /\ y' = yi /\ r' = t.r
           /\ ct' = <<t.c0, t.c1>>
    /\ origin' = "aenc"
    /\ pc' = "adec"
    /\ UNCHANGED <<pp, sk, pk, msg, dec, app, K, Tmap, cm, adec, restVars>>

AnamADec ==
    /\ pc = "adec"
    /\ adec' = ADec(app, pp, K, Tmap, ct[1], ct[2])
    /\ pc' = "done"
    /\ UNCHANGED <<pp, sk, pk, msg, ct, origin, dec, app, K, Tmap, cm, x, y, r, restVars>>

\* the loop body for whatever sample mustRandInt gives
AEncRejectAny == \E xi \in 0..(MaxCells - 1), yi \in 0..(MaxCells - 1) : AEncReject(xi, yi)

AEncAcceptAny == \E xi \in 0..(MaxCells - 1), yi \in 0..(MaxCells - 1) : AEncAccept(xi, yi)

AnamNext ==
    \/ AnamSetup
    \/ AEncCall
    \/ AEncRejectAny
    \/ AEncAcceptAny
    \/ AnamADec

SpecAnam == AnamInit /\ [][AnamNext]_vars

\* The program keeps running, and while AEnc's loop runs the random source
\* eventually gives a sample that passes the test whenever one exists.
FairSpecAnam ==
    /\ SpecAnam
    /\ WF_vars(AnamNext)
    /\ WF_vars(AEncAcceptAny)

\* C3: whatever AEnc returned, ADec gives back exactly the hidden message.
C3_AnamorphicRoundTrip ==
    pc = "done" => adec = cm

\* C4: every call of AEnc ends, with a ciphertext or with the error
\* AnamorphicEncodingExhausted.
C4_AEncTerminates ==
    (pc = "sample") ~> (pc \in {"adec", "exhausted"})

-----------------------------------------------------------------------------
(* Vote encoding: voting.go 9-29, 89-107 *)

RECURSIVE SeqSum(_)
SeqSum(q) == IF q = <<>> THEN 0 ELSE Head(q) + SeqSum(Tail(q))

\* big.Int.Exp(b, e, nil): b^e over the integers
RECURSIVE Pow(_, _)
Pow(b, e) == IF e <= 0 THEN 1 ELSE b * Pow(b, e - 1)

\* a slip in the exponent: base^candidate
EncodeVoteOffByOne(candidate, b) ==
    IF candidate <= 0 THEN 0 ELSE Pow(b, candidate)

EncodeVote(candidate, b) ==
    IF candidate <= 0 THEN 0 ELSE Pow(b, candidate - 1)

\* DecodeCounts' loop: the digit tmp mod b, then tmp = tmp div b
RECURSIVE DecodeLoop(_, _, _, _, _)
DecodeLoop(cs, tmp, i, nc, b) ==
    IF i < nc
    THEN DecodeLoop(Append(cs, tmp % b), tmp \div b, i + 1, nc, b)
    ELSE cs

DecodeCounts(tot, nc, b) == DecodeLoop(<<>>, tot, 0, nc, b)

\* the comparison written >= : the last largest count wins
RECURSIVE WinnerLoopLastMax(_, _, _, _)
WinnerLoopLastMax(cs, maxIdx, i, nc) ==
    IF i < nc
    THEN WinnerLoopLastMax(cs, IF cs[i + 1] >= cs[maxIdx + 1] THEN i ELSE maxIdx,
                           i + 1, nc)
    ELSE maxIdx

\* DetermineWinner's loop over i = 1..numCandidates-1 (0-based; cs is 1-based)
RECURSIVE WinnerLoop(_, _, _, _)
WinnerLoop(cs, maxIdx, i, nc) ==
    IF i < nc
    THEN WinnerLoop(cs, IF cs[i + 1] > cs[maxIdx + 1] THEN i ELSE maxIdx, i + 1, nc)
    ELSE maxIdx

DetermineWinner(tot, b, nc) ==
    WinnerLoop(DecodeCounts(tot, nc, b), 0, 1, nc) + 1

\* the variables of the cryptographic layers when they are not used
CryptoIdle ==
    /\ pp = [P |-> 3, Q |-> 2, G |-> 2]
    /\ ElgIdle
    /\ AnamIdle

VoteInit ==
    /\ pc = "cast"
    /\ CryptoIdle
    /\ base \in 1..MaxBase
    /\ numCandidates \in 1..MaxCandidates
    /\ ballots = <<>> /\ total = 0 /\ counts = <<>> /\ winner = Nil
    /\ secret = 0 /\ n = 1 /\ parts = <<>> /\ votes = <<>>
    /\ ElecIdle

\* one more choice is encoded and added to the sum
VoteCast ==
    /\ pc = "cast"
    /\ Len(ballots) < MaxBallots
    /\ \E c \in (-1)..numCandidates :
          /\ ballots' = Append(ballots, c)
          /\ total' = total + EncodeVote(c, base)
    /\ UNCHANGED <<elgVars, anamVars, base, numCandidates, counts, winner,
                   splitVars, tallyVars, elecVars>>

\* a total that is not a sum of encoded choices
VoteAnyTotal ==
    /\ pc = "cast"
    /\ ballots = <<>>
    /\ total' \in 1..MaxTotal
    /\ pc' = "summed"
    /\ UNCHANGED <<pp, sk, pk, msg, ct, origin, dec, anamVars, base, numCandidates,
                   ballots, counts, winner, splitVars, tallyVars, elecVars>>

VoteDecode ==
    /\ pc \in {"cast", "summed"}
    /\ counts' = DecodeCounts(total, numCandidates, base)
    /\ pc' = "decoded"
    /\ UNCHANGED <<pp, sk, pk, msg, ct, origin, dec, anamVars, base, numCandidates,
                   ballots, total, winner, splitVars, tallyVars, elecVars>>

VoteWinner ==
    /\ pc = "decoded"
    /\ winner' = DetermineWinner(total, base, numCandidates)
    /\ pc' = "won"
    /\ UNCHANGED <<pp, sk, pk, msg, ct, origin, dec, anamVars, base, numCandidates,
                   ballots, total, counts, splitVars, tallyVars, elecVars>>

VoteNext == VoteCast \/ VoteAnyTotal \/ VoteDecode \/ VoteWinner

SpecVote == VoteInit /\ [][VoteNext]_vars

\* how many times candidate c was chosen
Chosen(c) == Cardinality({ i \in 1..Len(ballots) : ballots[i] = c })

\* the sum of the encoded choices
RECURSIVE EncodedSum(_, _)
EncodedSum(q, b) ==
    IF q = <<>> THEN 0 ELSE EncodeVote(Head(q), b) + EncodedSum(Tail(q), b)

\* C6: when the total is the sum of the encoded choices and no candidate was
\* chosen base or more times, DecodeCounts gives at position c the number of
\* times candidate c was chosen; choices <= 0 add to no count.
C6_EncodeDecodeInverse ==
    ( /\ pc \in {"decoded", "won"}
      /\ total = EncodedSum(ballots, base)
      /\ \A c \in 1..numCandidates : Chosen(c) < base )
        => /\ Len(counts) = numCandidates
           /\ \A c \in 1..numCandidates : counts[c] = Chosen(c)

C6_Witness ==
    /\ pc = "decoded"
    /\ total = EncodedSum(ballots, base)
    /\ \A c \in 1..numCandidates : Chosen(c) < base
    /\ \E c \in 1..numCandidates : c > 1 /\ Chosen(c) = 2 /\ counts[c] = 2
    /\ \E i \in 1..Len(ballots) : ballots[i] <= 0

\* C9: DetermineWinner returns a candidate with the largest decoded count,
\* and the lowest such candidate.
C9_WinnerIsFirstMax ==
    pc = "won" =>
        LET cs == DecodeCounts(total, numCandidates, base)
        IN  /\ winner \in 1..numCandidates
            /\ \A j \in 1..numCandidates : cs[j] <= cs[winner]
            /\ \A j \in 1..(winner - 1) : cs[j] < cs[winner]

C9_Witness ==
    /\ pc = "won"
    /\ winner = 2
    /\ numCandidates >= 3
    /\ counts[3] = counts[2] /\ counts[1] < counts[2]

-----------------------------------------------------------------------------
(* Secret sharing: voting.go 31-43 *)

\* the loop without line 39: the remainder is never reduced
RECURSIVE SplitLoopStale(_, _, _, _, _)
SplitLoopStale(ps, remaining, i, num, draws) ==
    IF i < num - 1
    THEN SplitLoopStale(Append(ps, draws[i + 1]), remaining, i + 1, num, draws)
    ELSE Append(ps, remaining)

\* SplitSecret's loop, draws[i + 1] being what rand.Int gives in pass i
RECURSIVE SplitLoop(_, _, _, _, _)
SplitLoop(ps, remaining, i, num, draws) ==
    IF i < num - 1
    THEN SplitLoop(Append(ps, draws[i + 1]), remaining - draws[i + 1], i + 1, num, draws)
    ELSE Append(ps, remaining)

SplitSecret(rv, num, draws) == SplitLoop(<<>>, rv, 0, num, draws)

\* what rand.Int(rand.Reader, remaining + 1) can give in each pass:
\* a value in [0, remaining]
SplitDraws(rv, num) ==
    { ds \in [1..(num - 1) -> 0..rv] :
        \A i \in 1..(num - 1) : ds[i] <= rv - SeqSum(SubSeq(ds, 1, i - 1)) }

SplitInit ==
    /\ pc = "split"
    /\ CryptoIdle
    /\ base = 1 /\ numCandidates = 1 /\ ballots = <<>> /\ total = 0
    /\ counts = <<>> /\ winner = Nil /\ votes = <<>>
    /\ ElecIdle
    /\ secret \in 0..MaxSecret
    /\ n \in 1..MaxShares
    /\ parts = <<>>

SplitCall ==
    /\ pc = "split"
    /\ \E ds \in SplitDraws(secret, n) : parts' = SplitSecret(secret, n, ds)
    /\ pc' = "shared"
    /\ UNCHANGED <<pp, sk, pk, msg, ct, origin, dec, anamVars, voteVars, secret, n,
                   tallyVars, elecVars>>

SplitNext == SplitCall

SpecSplit == SplitInit /\ [][SplitNext]_vars

\* C5: SplitSecret(r, n) returns n shares whose sum over the integers is r.
C5_SharesSumToSecret ==
    pc = "shared" => (Len(parts) = n /\ SeqSum(parts) = secret)

C5_Witness ==
    /\ pc = "shared"
    /\ n >= 3 /\ secret >= 3
    /\ \A i \in 1..n : parts[i] > 0

-----------------------------------------------------------------------------
(* Tally: voting.go 63-87 *)

\* lines 74-79: the recovered value bi as the loop adds it to the total
Signed(bi, ap) ==
    LET S    == ap.L
        half == S \div 2
    IN  IF bi > half THEN bi - S ELSE bi

\* the loop leaving at the first nil instead of going on
RECURSIVE TallyLoopBreaks(_, _, _, _, _, _, _)
TallyLoopBreaks(ap, params, key, T, vs, i, tot) ==
    IF i > Len(vs)
    THEN tot % ap.L
    ELSE LET bi == ADec(ap, params, key, T, vs[i][1], vs[i][2])
         IN  IF bi = Nil
             THEN tot % ap.L
             ELSE TallyLoopBreaks(ap, params, key, T, vs, i + 1, tot + Signed(bi, ap))

\* TallyVotes' loop from vote i on (1-based), then the final reduction
RECURSIVE TallyLoop(_, _, _, _, _, _, _)
TallyLoop(ap, params, key, T, vs, i, tot) ==
    IF i > Len(vs)
    THEN tot % ap.L
    ELSE LET bi == ADec(ap, params, key, T, vs[i][1], vs[i][2])
         IN  IF bi = Nil
             THEN TallyLoop(ap, params, key, T, vs, i + 1, tot)
             ELSE TallyLoop(ap, params, key, T, vs, i + 1, tot + Signed(bi, ap))

TallyVotes(ap, params, key, T, vs) == TallyLoop(ap, params, key, T, vs, 1, 0)

\* the collector after main.go 72-90, holding no vote yet; TallyVotes reads
\* no key pair
TallyInit ==
    /\ pc = "collect"
    /\ pp \in GroupParams
    /\ app \in AParamsSet
    /\ K \in KeySpace(app)
    /\ Tmap = AGen(app.L, pp, K)
    /\ ElgIdle
    /\ cm = Nil /\ x = Nil /\ y = Nil /\ r = Nil /\ adec = Nil
    /\ RestIdle

\* any pair may be handed in as a vote; ADec never reads c0, so only c1 varies
TallySubmit ==
    /\ pc = "collect"
    /\ Len(votes) < MaxVotes
    /\ \E c1 \in 0..(pp.P - 1) : votes' = Append(votes, <<1, c1>>)
    /\ UNCHANGED <<elgVars, anamVars, voteVars, splitVars, elecVars>>

TallyRun ==
    /\ pc = "collect"
    /\ total' = TallyVotes(app, pp, K, Tmap, votes)
    /\ pc' = "tallied"
    /\ UNCHANGED <<pp, sk, pk, msg, ct, origin, dec, anamVars, base, numCandidates,
                   ballots, counts, winner, splitVars, tallyVars, elecVars>>

TallyNext == TallySubmit \/ TallyRun

SpecTally == TallyInit /\ [][TallyNext]_vars

\* what ADec recovers from vote v
Recovered(v) == ADec(app, pp, K, Tmap, v[1], v[2])

IsFound(v) == Recovered(v) # Nil

\* C7: the total is the total of the same votes with the NotFound ones removed.
C7_NotFoundAbsorbed ==
    pc = "tallied" =>
        total = TallyVotes(app, pp, K, Tmap, SelectSeq(votes, IsFound))

C7_Witness ==
    /\ pc = "tallied"
    /\ total # 0
    /\ \E i \in 1..Len(votes), j \in 1..Len(votes) :
          /\ i < j
          /\ ~IsFound(votes[i])
          /\ IsFound(votes[j]) /\ Recovered(votes[j]) # 0

\* C10: every value the loop adds lies in [-L/2, L/2), and the returned total
\* lies in [0, L).
C10_SignedRange ==
    pc = "tallied" =>
        /\ \A i \in 1..Len(votes) :
              IsFound(votes[i]) =>
                  LET b == Signed(Recovered(votes[i]), app)
                  IN  (0 - app.L) <= 2 * b /\ 2 * b < app.L
        /\ total \in 0..(app.L - 1)

-----------------------------------------------------------------------------
(* The election: main.go 33-67, 92-133; voting.go 45-61 *)

\* the cover message of every vote (main.go 118)
vf == 7

\* the shares added instead of subtracted
ComputeBlindVotesAddsShares(vi, rv, b, shares, params, ap) ==
    LET v_i       == EncodeVote(vi, b)
        sumShares == SeqSum(shares)
    IN  (v_i + rv + sumShares) % ap.L

\* voting.go 45-61
ComputeBlindVotes(vi, rv, b, shares, params, ap) ==
    LET v_i       == EncodeVote(vi, b)
        sumShares == SeqSum(shares)
    IN  (v_i + rv - sumShares) % ap.L

\* DistributeShares' pass for one sender: r_i is stored and shares[i] is
\* appended to the Shares of the i-th user of userList
DistributePass(us, sender, r_i, shares) ==
    [i \in 1..Len(us) |->
        [r      |-> IF i = sender THEN r_i ELSE us[i].r,
         Shares |-> Append(us[i].Shares, shares[i])]]

\* the state after main.go 72-98: parameters, the collector's keys, the users
\* of GenerateUsers (their own keys are never used again)
ElectionInit ==
    /\ pc = "distribute"
    /\ pp \in GroupParams
    /\ app \in AParamsSet
    /\ \E draw \in 0..(pp.Q - 1) :
          /\ sk = KGen(pp, draw)[1]
          /\ pk = KGen(pp, draw)[2]
    /\ K \in KeySpace(app)
    /\ Tmap = AGen(app.L, pp, K)
    /\ msg = vf /\ ct = <<Nil, Nil>> /\ origin = "none" /\ dec = Nil
    /\ cm = Nil /\ x = Nil /\ y = Nil /\ r = Nil /\ adec = Nil
    /\ \E nu \in 1..MaxUsers :
          /\ users = [i \in 1..nu |-> [r |-> Nil, Shares |-> <<>>]]
          /\ base = nu + 1
    /\ numCandidates = MaxCandidates
    /\ ballots = <<>> /\ total = 0 /\ counts = <<>> /\ winner = Nil
    /\ secret = 0 /\ n = 1 /\ parts = <<>>
    /\ votes = <<>>
    /\ low \in 0..1
    /\ high = MaxHigh
    /\ sent = 0 /\ voted = {} /\ cands = <<>> /\ blinded = <<>>

\* DistributeShares, one sender of userList per step
ElectionDistribute ==
    /\ pc = "distribute"
    /\ sent < Len(users)
    /\ \E r_i \in low..(high - 1) :
          \E ds \in SplitDraws(r_i, Len(users)) :
              users' = DistributePass(users, sent + 1, r_i,
                                      SplitSecret(r_i, Len(users), ds))
    /\ sent' = sent + 1
    /\ pc' = IF sent' = Len(users) THEN "vote" ELSE "distribute"
    /\ UNCHANGED <<pp, sk, pk, msg, ct, origin, dec, anamVars, voteVars, splitVars,
                   tallyVars, low, high, voted, cands, blinded>>

\* main.go 111-126 for user u: a candidate, the blinded vote, AEnc returning
\* for a sample that passes its test, the ciphertext appended to VC.Votes
ElectionVote(u) ==
    /\ pc = "vote"
    /\ u \in (1..Len(users)) \ voted
    /\ \E candidate \in 1..numCandidates :
          LET bi == ComputeBlindVotes(candidate, users[u].r, base, users[u].Shares,
                                      pp, app)
          IN  \E xi \in 0..(app.S - 1), yi \in 0..(app.T - 1) :
                  LET t == AEncTry(app, pp, K, pk, vf, bi, xi, yi)
                  IN  /\ t.accept
                      /\ votes' = Append(votes, <<t.c0, t.c1>>)
                      /\ blinded' = Append(blinded, bi)
                      /\ cands' = Append(cands, candidate)
    /\ voted' = voted \cup {u}
    /\ pc' = IF voted' = 1..Len(users) THEN "tally" ELSE "vote"
    /\ UNCHANGED <<pp, sk, pk, msg, ct, origin, dec, anamVars, voteVars, splitVars,
                   users, low, high, sent>>

\* main.go 129-132
ElectionTally ==
    /\ pc = "tally"
    /\ total' = TallyVotes(app, pp, K, Tmap, votes)
    /\ winner' = DetermineWinner(total', base, numCandidates)
    /\ pc' = "done"
    /\ UNCHANGED <<pp, sk, pk, msg, ct, origin, dec, anamVars, base, numCandidates,
                   ballots, counts, splitVars, tallyVars, elecVars>>

ElectionNext ==
    \/ ElectionDistribute
    \/ \E u \in 1..MaxUsers : ElectionVote(u)
    \/ ElectionTally

SpecElection == ElectionInit /\ [][ElectionNext]_vars

\* the random term of user i: r_i minus the shares it holds
Blinding(i) == users[i].r - SeqSum(users[i].Shares)

RECURSIVE BlindingSum(_)
BlindingSum(i) == IF i = 0 THEN 0 ELSE Blinding(i) + BlindingSum(i - 1)

\* the collector recovered every voter's blinded vote
AllRecovered ==
    \A j \in 1..Len(votes) : Recovered(votes[j]) = blinded[j]

\* C1: once DistributeShares is through, the random terms of all users sum
\* to 0; and when the collector recovers every blinded vote, the tally's total
\* is the sum of the encoded votes mod L.
C1_Cancellation ==
    /\ pc \in {"vote", "tally", "done"} => BlindingSum(Len(users)) = 0
    /\ (pc = "done" /\ AllRecovered) => total = EncodedSum(cands, base) % app.L

C1_Witness ==
    /\ pc = "done"
    /\ AllRecovered
    /\ Len(users) >= 2
    /\ \E i \in 1..Len(users) : Blinding(i) # 0
    /\ \E j \in 1..Len(votes) : blinded[j] # EncodeVote(cands[j], base) % app.L
    /\ total # 0

====
